---- MODULE Spec2Model ----
(***************************************************************************)
(* cargoc: the compile/link pipeline of cbuild::graph::Graph::build and    *)
(* cbuild::file::InputFile::compile, over an abstract file system whose    *)
(* only observable attributes are existence and modification time.         *)
(*                                                                         *)
(* A path is a record [abs, comps, ext]: comps are the path's components,  *)
(* the last one being the file stem, ext is the extension of the last      *)
(* component ("" when it has none).  "src/sub/b.c" is                      *)
(* [abs |-> FALSE, comps |-> <<"src","sub","b">>, ext |-> "c"].            *)
(*                                                                         *)
(* Environment: a successful compiler (linker) process writes its output   *)
(* with the current clock as modification time; a compiler cannot succeed  *)
(* on a source that does not exist; a failed process leaves the file       *)
(* system as it was; the clock is monotone but two writes may carry the    *)
(* same time stamp; sources are touched only between builds.               *)
(***************************************************************************)
EXTENDS Naturals, Sequences, FiniteSets

VARIABLES
    graph,        \* the Graph (target description), fixed for a behaviour
    full_rebuild, \* Graph.full_rebuild of the build in progress (Cli -B)
    src_mtime,    \* source path -> modification time (existing sources)
    obj_mtime,    \* object path -> modification time, 0: does not exist
    art_mtime,    \* modification time of Graph::output(), 0: does not exist
    dirs,         \* cache directories that exist
    clock,        \* current time
    pc,           \* position of Graph::build
    jobs,         \* the JoinSet: one record per InputFile
    order,        \* job indices in the order the tasks completed
    output_files, \* Vec<OutputFile> handed to Graph::link
    link,         \* the link step: its state, and whether a linker was spawned
    result,       \* what Graph::build returned
    start,        \* file-system snapshot taken when the build started
    prev,         \* what the previous build returned
    touched,      \* sources touched since the previous build returned
    builds,       \* number of builds started
    setup,        \* concurrent builds in their cache-directory setup
    last_link,    \* the previous build's linker arguments, when that build
                  \* left the file system as it found it
    cli           \* the command-line invocation running the build script

vars == <<graph, full_rebuild, src_mtime, obj_mtime, art_mtime, dirs, clock,
          pc, jobs, order, output_files, link, result, start, prev,
          touched, builds, setup, last_link, cli>>

-----------------------------------------------------------------------------
(* Bounds *)

MaxClock == 3
MaxBuilds == 2
MaxEntries == 2
NumTargets == 2
MaxInstalls == 2

-----------------------------------------------------------------------------
(* Paths: std::path::Path as used by Graph::build *)

P(comps, ext) == [abs |-> FALSE, comps |-> comps, ext |-> ext]

CACHE_DIR == P(<<".cargoc">>, "")
OBJ_DIR == P(<<"obj">>, "")

\* Path::join: an absolute right-hand side replaces the left one.
Join(a, b) ==
    IF b.abs THEN b
    ELSE IF b.comps = <<>> THEN a
    ELSE [abs |-> a.abs, comps |-> a.comps \o b.comps, ext |-> b.ext]

\* Path::starts_with: whole components only.
StartsWith(p, base) ==
    /\ p.abs = base.abs
    /\ Len(base.comps) <= Len(p.comps)
    /\ SubSeq(p.comps, 1, Len(base.comps)) = base.comps
    /\ IF Len(base.comps) = Len(p.comps) THEN base.ext = p.ext
       ELSE base.ext = ""

\* file.strip_prefix(&self.src_dir).unwrap_or(&file)
strip_prefix_or(p, base) ==
    IF StartsWith(p, base)
    THEN [abs |-> FALSE,
          comps |-> SubSeq(p.comps, Len(base.comps) + 1, Len(p.comps)),
          ext |-> IF Len(base.comps) = Len(p.comps) THEN "" ELSE p.ext]
    ELSE p

\* Path::with_extension: replaces the extension of the file name, if any name.
with_extension(p, e) ==
    IF p.comps = <<>> THEN p ELSE [p EXCEPT !.ext = e]

\* Path::parent
parent(p) ==
    IF p.comps = <<>> THEN p
    ELSE [abs |-> p.abs, comps |-> SubSeq(p.comps, 1, Len(p.comps) - 1),
          ext |-> ""]

-----------------------------------------------------------------------------
(* The source tree the builds run in *)

SrcDir == P(<<"src">>, "")
SubDir == P(<<"src", "sub">>, "")
FileAC == P(<<"src", "a">>, "c")
FileAS == P(<<"src", "a">>, "s")
FileBC == P(<<"src", "sub", "b">>, "c")
TopAC  == P(<<"a">>, "c")
Gone   == P(<<"gone">>, "c")

Dirs == {SrcDir, SubDir}
SourceFiles == {FileAC, FileAS, FileBC, TopAC}

\* Path::is_dir; a path that does not exist is no directory.
is_dir(p) == p \in Dirs

\* One directory's entries, in the order the OS enumerates them.
Children(d) ==
    IF d = SrcDir THEN <<FileAC, SubDir, FileAS>>
    ELSE IF d = SubDir THEN <<FileBC>>
    ELSE <<>>

\* Faulty variant: subdirectories are not descended into.
read_dir_from_flat(d, k) ==
    LET NotDir(e) == ~is_dir(e)
        rest == SubSeq(Children(d), k, Len(Children(d)))
    IN  SelectSeq(rest, NotDir)

RECURSIVE read_dir_from(_, _)
\* Graph::read_dir: every non-directory descendant, depth first.
read_dir_from(d, k) ==
    IF k > Len(Children(d)) THEN <<>>
    ELSE LET e == Children(d)[k]
         IN (IF is_dir(e) THEN read_dir_from(e, 1) ELSE <<e>>)
            \o read_dir_from(d, k + 1)

read_dir(d) == read_dir_from(d, 1)

-----------------------------------------------------------------------------
(* ToolChain *)

\* enum ToolChain: four built-in variants and Custom { compiler, linker }.
BuiltIn(kind) == [kind |-> kind, compiler |-> "", linker |-> ""]
Custom(compiler, linker) ==
    [kind |-> "Custom", compiler |-> compiler, linker |-> linker]

Gcc == BuiltIn("Gcc")
Clang == BuiltIn("Clang")
Msvc == BuiltIn("Msvc")
Zig == BuiltIn("Zig")

ToolChains == {Gcc, Clang, Msvc, Zig, Custom("cc", "ld")}

\* enum BinaryType
BinaryTypes == {"Executable", "DynLib", "StaticLib"}

obj_file_ext(tool_chain) == IF tool_chain.kind = "Msvc" THEN "obj" ELSE "o"

\* What a function returns in place of a value when it runs into
\* unimplemented!(): the calling task panics.
Unimplemented == "unimplemented!"

\* Faulty variant: Msvc always resolves to the standard linker.
linker_always_link(tool_chain, bin_type) ==
    IF tool_chain.kind = "Gcc" /\ bin_type = "Executable" THEN "gcc"
    ELSE IF tool_chain.kind = "Clang" /\ bin_type = "Executable" THEN "clang"
    ELSE IF tool_chain.kind = "Msvc" /\ bin_type = "Executable" THEN "link.exe"
    ELSE IF tool_chain.kind = "Msvc" /\ bin_type = "StaticLib" THEN "link.exe"
    ELSE IF tool_chain.kind = "Zig" /\ bin_type = "Executable" THEN "zig"
    ELSE IF tool_chain.kind = "Custom" THEN tool_chain.linker
    ELSE Unimplemented

\* ToolChain::linker: the match arms in their order.
linker(tool_chain, bin_type) ==
    IF tool_chain.kind = "Gcc" /\ bin_type = "Executable" THEN "gcc"
    ELSE IF tool_chain.kind = "Clang" /\ bin_type = "Executable" THEN "clang"
    ELSE IF tool_chain.kind = "Msvc" /\ bin_type = "Executable" THEN "link.exe"
    ELSE IF tool_chain.kind = "Msvc" /\ bin_type = "StaticLib" THEN "lib.exe"
    ELSE IF tool_chain.kind = "Zig" /\ bin_type = "Executable" THEN "zig"
    ELSE IF tool_chain.kind = "Custom" THEN tool_chain.linker
    ELSE Unimplemented

\* ToolChain::linker_link_lib
linker_link_lib(tool_chain) ==
    IF tool_chain.kind = "Msvc" THEN Unimplemented ELSE "-l"

\* ToolChain::linker_link_dir_flag
linker_link_dir_flag(tool_chain) ==
    IF tool_chain.kind = "Msvc" THEN Unimplemented ELSE "-L"

-----------------------------------------------------------------------------
(* Result<OutputFile> of a task, Result<PathBuf> of a build *)

NoPath == P(<<>>, "")
NoResult == [tag |-> "None", kind |-> "", path |-> NoPath]
Ok(p) == [tag |-> "Ok", kind |-> "", path |-> p]
Err(kind, p) == [tag |-> "Err", kind |-> kind, path |-> p]
\* The build task panicked: it returns neither Ok nor Err.
Panic(kind) == [tag |-> "Panic", kind |-> kind, path |-> NoPath]

-----------------------------------------------------------------------------
(* Command lines: an argument is a flag, a path, a flag joined to a path, or *)
(* a flag joined to a name                                                   *)

Tok(text) == [text |-> text, path |-> NoPath, str |-> ""]
PathTok(p) == [text |-> "", path |-> p, str |-> ""]
Concat(text, p) == [text |-> text, path |-> p, str |-> ""]
LibTok(text, name) == [text |-> text, path |-> NoPath, str |-> name]

compiler_input_flag(tool_chain) == IF tool_chain.kind = "Msvc" THEN "/c" ELSE "-c"
compiler_output_flag(tool_chain) == IF tool_chain.kind = "Msvc" THEN "/Fo" ELSE "-o"
linker_output_flag(tool_chain) == IF tool_chain.kind = "Msvc" THEN "/OUT:" ELSE "-o"

\* The Zig driver's subcommand: cmd.arg("cc") right after Command::new.
subcommand(tool_chain) == IF tool_chain.kind = "Zig" THEN <<Tok("cc")>> ELSE <<>>

\* The arguments InputFile::compile gives its Command, with no warning flag,
\* custom flag or include directory configured.
compile_args(tool_chain, path, output_path) ==
    subcommand(tool_chain)
    \o <<Tok(compiler_input_flag(tool_chain)), PathTok(path)>>
    \o (IF tool_chain.kind = "Msvc"
        THEN <<Concat("/Fo", output_path)>>
        ELSE <<Tok(compiler_output_flag(tool_chain)), PathTok(output_path)>>)
    \o (IF tool_chain.kind = "Msvc" THEN <<Tok("/nologo")>> ELSE <<>>)

\* Faulty variant: the link command is built without the subcommand.
link_args_no_subcommand(g, out, files) ==
    (IF g.tool_chain.kind = "Msvc"
     THEN <<Concat("/OUT:", out)>>
     ELSE <<Tok(linker_output_flag(g.tool_chain)), PathTok(out)>>)
    \o [k \in DOMAIN files |-> PathTok(files[k])]
    \o (IF g.tool_chain.kind = "Msvc" THEN <<Tok("/nologo")>> ELSE <<>>)
    \o [k \in DOMAIN g.libs |-> LibTok("-l", g.libs[k])]
    \o [k \in DOMAIN g.lib_paths |-> LibTok("-L", g.lib_paths[k])]

\* The arguments Graph::link gives its Command: append_out, append_files,
\* append_args (no custom flag configured) and append_libs, for a toolchain
\* that has the library flags.
link_args(g, out, files) ==
    subcommand(g.tool_chain)
    \o (IF g.tool_chain.kind = "Msvc"
        THEN <<Concat("/OUT:", out)>>
        ELSE <<Tok(linker_output_flag(g.tool_chain)), PathTok(out)>>)
    \o [k \in DOMAIN files |-> PathTok(files[k])]
    \o (IF g.tool_chain.kind = "Msvc" THEN <<Tok("/nologo")>> ELSE <<>>)
    \o [k \in DOMAIN g.libs |-> LibTok("-l", g.libs[k])]
    \o [k \in DOMAIN g.lib_paths |-> LibTok("-L", g.lib_paths[k])]

-----------------------------------------------------------------------------
(* File discovery and object paths: the synchronous head of Graph::build *)

\* Option<Vec<PathBuf>>
NoExcludes == [some |-> FALSE, paths |-> {}]
Excludes(paths) == [some |-> TRUE, paths |-> paths]

\* Faulty variant: the exclusion list is ignored.
Filtered_unfiltered(g) == g.files

\* self.files filtered by the exclusion list, when there is one.
Filtered(g) ==
    IF g.excludes.some
    THEN LET Keep(f) == f \notin g.excludes.paths IN SelectSeq(g.files, Keep)
    ELSE g.files

RECURSIVE Expand(_)
\* A directory entry is expanded, a file entry is taken as it is.
Expand(files) ==
    IF files = <<>> THEN <<>>
    ELSE (IF is_dir(Head(files)) THEN read_dir(Head(files))
          ELSE <<Head(files)>>) \o Expand(Tail(files))

input_files(g) == Expand(Filtered(g))

ObjPath(g, file) ==
    with_extension(
        Join(Join(CACHE_DIR, OBJ_DIR), strip_prefix_or(file, g.src_dir)),
        obj_file_ext(g.tool_chain))

\* InputFile::new for every discovered file
NewJobs(g) ==
    [i \in 1..Len(input_files(g)) |->
        [path |-> input_files(g)[i],
         output_path |-> ObjPath(g, input_files(g)[i]),
         st |-> "Unchecked",
         spawn |-> "no",
         res |-> NoResult,
         wrote |-> 0,
         args |-> <<>>]]

\* Graph::output on a non-Windows host
output(g) == g.output

ObjPathsOf(g) ==
    {ObjPath(g, f) : f \in SourceFiles \cup {Gone}}

-----------------------------------------------------------------------------
(* Staleness decisions *)

Exists(p) == p \in SourceFiles

\* Faulty variant: a missing object counts as up to date.
file_should_recompile_missing(job, fr, src, obj) ==
    IF fr THEN "true"
    ELSE IF ~Exists(job.path) THEN "err"
    ELSE IF obj[job.output_path] = 0 THEN "false"
    ELSE IF src[job.path] > obj[job.output_path] THEN "true"
    ELSE "false"

\* Faulty variant: a source as old as its object counts as newer.
file_should_recompile_ge(job, fr, src, obj) ==
    IF fr THEN "true"
    ELSE IF ~Exists(job.path) THEN "err"
    ELSE IF obj[job.output_path] = 0 THEN "true"
    ELSE IF src[job.path] >= obj[job.output_path] THEN "true"
    ELSE "false"

\* Faulty variant: the object is looked at before the source.
file_should_recompile_object_first(job, fr, src, obj) ==
    IF fr THEN "true"
    ELSE IF obj[job.output_path] = 0 THEN "true"
    ELSE IF ~Exists(job.path) THEN "err"
    ELSE IF src[job.path] > obj[job.output_path] THEN "true"
    ELSE "false"

\* InputFile::should_recompile: "true", "false", or "err" when the source's
\* metadata cannot be read.
file_should_recompile(job, fr, src, obj) ==
    IF fr THEN "true"
    ELSE IF ~Exists(job.path) THEN "err"
    ELSE IF obj[job.output_path] = 0 THEN "true"
    ELSE IF src[job.path] > obj[job.output_path] THEN "true"
    ELSE "false"

RECURSIVE newer_than_ge(_, _, _)
\* Faulty variant: an object as old as the artifact counts as newer.
newer_than_ge(files, obj, art) ==
    IF files = <<>> THEN "false"
    ELSE IF obj[Head(files)] = 0 THEN "err"
    ELSE IF obj[Head(files)] >= art THEN "true"
    ELSE newer_than_ge(Tail(files), obj, art)

\* Faulty variant: the objects are not compared with the artifact at all.
newer_than_never(files, obj, art) == "false"

\* Faulty variant: only the first object is compared with the artifact.
newer_than_first(files, obj, art) ==
    IF files = <<>> THEN "false"
    ELSE IF obj[Head(files)] = 0 THEN "err"
    ELSE IF obj[Head(files)] > art THEN "true"
    ELSE "false"

RECURSIVE newer_than(_, _, _)
\* The loop of Graph::should_recompile over the OutputFiles, in order.
newer_than(files, obj, art) ==
    IF files = <<>> THEN "false"
    ELSE IF obj[Head(files)] = 0 THEN "err"
    ELSE IF obj[Head(files)] > art THEN "true"
    ELSE newer_than(Tail(files), obj, art)

\* Faulty variant: the full-rebuild override is not consulted by the link step.
graph_should_recompile_no_override(files, fr, obj, art) ==
    IF art = 0 THEN "true"
    ELSE newer_than(files, obj, art)

\* Graph::should_recompile
graph_should_recompile(files, fr, obj, art) ==
    IF fr THEN "true"
    ELSE IF art = 0 THEN "true"
    ELSE newer_than(files, obj, art)

-----------------------------------------------------------------------------
(* Results *)

Terminal(st) == st \in {"Skipped", "Completed", "Failed"}

\* Faulty variant: the join returns as soon as one task has completed.
Joined_any(js) == \E i \in DOMAIN js : Terminal(js[i].st)

\* Faulty variant: the join gives up at the first failed task.
Joined_first_error(js) ==
    \/ \A i \in DOMAIN js : Terminal(js[i].st)
    \/ \E i \in DOMAIN js : js[i].st = "Failed"

\* Faulty variant: a task that failed is never seen to complete.
Joined_but_failed(js) == \A i \in DOMAIN js : js[i].st \in {"Skipped", "Completed"}

\* JoinSet::join_all returns once every task has completed.
Joined(js) == \A i \in DOMAIN js : Terminal(js[i].st)

\* Faulty variant: the tasks' errors are dropped.
FirstFailed_none(ord, js) == 0

RECURSIVE FirstFailed(_, _)
\* collect::<Result<Vec<_>>>: the first Err in completion order, 0 if none.
FirstFailed(ord, js) ==
    IF ord = <<>> THEN 0
    ELSE IF js[Head(ord)].res.tag = "Err" THEN Head(ord)
    ELSE FirstFailed(Tail(ord), js)

\* Faulty variant: only the objects compiled in this build are collected.
OutputFiles_compiled_only(ord, js) ==
    LET Compiled(k) == js[k].st = "Completed"
        sel == SelectSeq(ord, Compiled)
    IN  [k \in 1..Len(sel) |-> js[sel[k]].res.path]

\* The Vec<OutputFile> collected from the tasks, in completion order.
OutputFiles(ord, js) == [k \in 1..Len(ord) |-> js[ord[k]].res.path]

\* The link step before Graph::link is entered: no Command was built.
NoLink == [st |-> "Unchecked", spawn |-> "no", program |-> "", files |-> <<>>,
           args |-> <<>>]

\* Graph::append_libs: the flags may be sought only when there is a library
\* or a search path to pass.
append_libs(g) ==
    IF g.libs # <<>> /\ linker_link_lib(g.tool_chain) = Unimplemented
    THEN Unimplemented
    ELSE IF g.lib_paths # <<>> /\ linker_link_dir_flag(g.tool_chain) = Unimplemented
    THEN Unimplemented
    ELSE "ok"

Snapshot(src, obj, art) == [src |-> src, obj |-> obj, art |-> art]

\* What is remembered of a build for the build that follows it: the object
\* arguments its linker got, when it invoked one and wrote no file.
NoLastLink == [some |-> FALSE, fr |-> FALSE, files |-> <<>>]
LastLink(l, fr, before, after) ==
    IF l.spawn # "no" /\ before = after
    THEN [some |-> TRUE, fr |-> fr, files |-> l.files]
    ELSE NoLastLink

\* No build script is running: Graph::build is called directly.
NoCli == [mode |-> "none", on_nil |-> "ignore", handle |-> "None",
          installs |-> 0, got |-> "nothing", lua |-> "none", exit |-> "none"]

-----------------------------------------------------------------------------
(* Initial states *)

\* The targets whose builds are followed to the end: a directory entry next
\* to a file, two sources with one object path, a source that does not
\* exist, and no file at all.
PipeFiles ==
    {<<SubDir, FileAC>>, <<FileAS, FileAC>>, <<FileAC, Gone>>, <<>>}
PipeExcludes == {NoExcludes}
PipeToolChains == {Clang}

SeqsUpTo(S, n) == UNION {[1..k -> S] : k \in 0..n}

\* Graph values; typ, output, libs and lib_paths at their serde defaults.
Graphs(files, excludes, srcdirs, chains) ==
    [tool_chain : chains,
     typ : {"Executable"},
     files : files,
     excludes : excludes,
     src_dir : srcdirs,
     output : {P(<<"a">>, "")},
     libs : {<<>>},
     lib_paths : {<<>>}]

InitFs(g) ==
    /\ src_mtime = [f \in SourceFiles |-> 1]
    /\ obj_mtime = [o \in ObjPathsOf(g) |-> 0]
    /\ art_mtime = 0
    /\ dirs = {}
    /\ clock = 1

InitBuild ==
    /\ full_rebuild = FALSE
    /\ pc = "idle"
    /\ jobs = <<>>
    /\ order = <<>>
    /\ output_files = <<>>
    /\ link = NoLink
    /\ result = NoResult
    /\ start = Snapshot(src_mtime, obj_mtime, art_mtime)
    /\ prev = NoResult
    /\ touched = {}
    /\ builds = 0
    /\ setup = <<>>
    /\ last_link = NoLastLink
    /\ cli = NoCli

Init ==
    /\ graph \in Graphs(PipeFiles, PipeExcludes, {SrcDir}, PipeToolChains)
    /\ InitFs(graph)
    /\ InitBuild

-----------------------------------------------------------------------------
(* Graph::build *)

RECURSIVE Ancestors(_)
\* fs::create_dir_all
Ancestors(d) ==
    IF d.comps = <<>> THEN {} ELSE {d} \cup Ancestors(parent(d))

\* Lines 244-287: cache directories, discovery, InputFiles, object
\* directories, and one task spawned per InputFile.  B is the Cli's -B,
\* copied into the Graph by Build::add_binary.
StartBuild(B) ==
    /\ pc = "idle"
    /\ builds < MaxBuilds
    /\ builds' = builds + 1
    /\ full_rebuild' = B
    /\ dirs' = dirs \cup {CACHE_DIR, Join(CACHE_DIR, OBJ_DIR)}
                    \cup UNION {Ancestors(parent(NewJobs(graph)[i].output_path)) :
                                  i \in DOMAIN NewJobs(graph)}
    /\ jobs' = NewJobs(graph)
    /\ order' = <<>>
    /\ output_files' = <<>>
    /\ link' = NoLink
    /\ result' = NoResult
    /\ start' = Snapshot(src_mtime, obj_mtime, art_mtime)
    /\ pc' = "compile"
    /\ UNCHANGED <<graph, cli, last_link, setup, src_mtime, obj_mtime, art_mtime, clock, prev, touched>>

\* InputFile::compile up to the spawn: the staleness decision, then either
\* the early return (Skipped), the spawned compiler (Compiling), or an error.
JobCheck(i, spawn_ok) ==
    /\ pc = "compile"
    /\ i \in DOMAIN jobs
    /\ jobs[i].st = "Unchecked"
    /\ LET d == file_should_recompile(jobs[i], full_rebuild, src_mtime, obj_mtime)
       IN  IF d = "err"
           THEN /\ jobs' = [jobs EXCEPT ![i].st = "Failed",
                                        ![i].res = Err("metadata", jobs[i].path)]
                /\ order' = Append(order, i)
           ELSE IF d = "false"
           THEN /\ jobs' = [jobs EXCEPT ![i].st = "Skipped",
                                        ![i].res = Ok(jobs[i].output_path)]
                /\ order' = Append(order, i)
           ELSE IF spawn_ok
           THEN /\ jobs' = [jobs EXCEPT ![i].st = "Compiling", ![i].spawn = "ok",
                                        ![i].args = compile_args(graph.tool_chain,
                                                        jobs[i].path,
                                                        jobs[i].output_path)]
                /\ order' = order
           ELSE /\ jobs' = [jobs EXCEPT ![i].st = "Failed", ![i].spawn = "failed",
                                        ![i].args = compile_args(graph.tool_chain,
                                                        jobs[i].path,
                                                        jobs[i].output_path),
                                        ![i].res = Err("spawn", jobs[i].path)]
                /\ order' = Append(order, i)
    /\ UNCHANGED <<graph, cli, last_link, setup, full_rebuild, src_mtime, obj_mtime, art_mtime, dirs,
                   clock, pc, output_files, link, result, start, prev, touched,
                   builds>>

\* The compiler process exits: with success it has written the object.
JobExit(i, success) ==
    /\ pc = "compile"
    /\ i \in DOMAIN jobs
    /\ jobs[i].st = "Compiling"
    /\ success => Exists(jobs[i].path)
    /\ IF success
       THEN /\ obj_mtime' = [obj_mtime EXCEPT ![jobs[i].output_path] = clock]
            /\ jobs' = [jobs EXCEPT ![i].st = "Completed", ![i].wrote = clock,
                                    ![i].res = Ok(jobs[i].output_path)]
       ELSE /\ obj_mtime' = obj_mtime
            /\ jobs' = [jobs EXCEPT ![i].st = "Failed",
                                    ![i].res = Err("exit", jobs[i].path)]
    /\ order' = Append(order, i)
    /\ UNCHANGED <<graph, cli, last_link, setup, full_rebuild, src_mtime, art_mtime, dirs, clock, pc,
                   output_files, link, result, start, prev, touched, builds>>

\* Lines 288-292: join_all, then the first error or every OutputFile.
JoinAll ==
    /\ pc = "compile"
    /\ Joined(jobs)
    /\ IF FirstFailed(order, jobs) # 0
       THEN /\ result' = jobs[FirstFailed(order, jobs)].res
            /\ output_files' = <<>>
            /\ pc' = "done"
       ELSE /\ result' = result
            /\ output_files' = OutputFiles(order, jobs)
            /\ pc' = "link"
    /\ UNCHANGED <<graph, cli, last_link, setup, full_rebuild, src_mtime, obj_mtime, art_mtime, dirs,
                   clock, jobs, order, link, start, prev, touched, builds>>

\* Graph::link up to the spawn: the staleness decision, then the Command
\* (linker resolution, object files, libraries), then the spawn.
LinkCheck(spawn_ok) ==
    /\ pc = "link"
    /\ LET d == graph_should_recompile(output_files, full_rebuild, obj_mtime, art_mtime)
           program == linker(graph.tool_chain, graph.typ)
       IN  IF d = "err"
           THEN /\ link' = [link EXCEPT !.st = "Failed"]
                /\ result' = Err("metadata", output(graph))
                /\ pc' = "done"
           ELSE IF d = "false"
           THEN /\ link' = [link EXCEPT !.st = "Skipped"]
                /\ result' = Ok(output(graph))
                /\ pc' = "done"
           ELSE IF program = Unimplemented
           THEN /\ link' = [link EXCEPT !.st = "Failed"]
                /\ result' = Panic("linker")
                /\ pc' = "done"
           ELSE IF append_libs(graph) = Unimplemented
           THEN /\ link' = [link EXCEPT !.st = "Failed"]
                /\ result' = Panic("linker_link")
                /\ pc' = "done"
           ELSE IF spawn_ok
           THEN /\ link' = [st |-> "Linking", spawn |-> "ok",
                            program |-> program, files |-> output_files,
                            args |-> link_args(graph, output(graph), output_files)]
                /\ result' = result
                /\ pc' = "linking"
           ELSE /\ link' = [st |-> "Failed", spawn |-> "failed",
                            program |-> program, files |-> output_files,
                            args |-> link_args(graph, output(graph), output_files)]
                /\ result' = Err("spawn", output(graph))
                /\ pc' = "done"
    /\ UNCHANGED <<graph, cli, last_link, setup, full_rebuild, src_mtime, obj_mtime, art_mtime, dirs,
                   clock, jobs, order, output_files, start, prev, touched, builds>>

\* The linker process exits: with success it has written the artifact.
LinkExit(success) ==
    /\ pc = "linking"
    /\ IF success
       THEN /\ art_mtime' = clock
            /\ link' = [link EXCEPT !.st = "Completed"]
            /\ result' = Ok(output(graph))
       ELSE /\ art_mtime' = art_mtime
            /\ link' = [link EXCEPT !.st = "Failed"]
            /\ result' = Err("link", output(graph))
    /\ pc' = "done"
    /\ UNCHANGED <<graph, cli, last_link, setup, full_rebuild, src_mtime, obj_mtime, dirs, clock, jobs,
                   order, output_files, start, prev, touched, builds>>

\* Faulty variant: a build that fails removes the objects of the cache.
Return_rollback ==
    /\ pc = "done"
    /\ pc' = "idle"
    /\ prev' = IF result.tag = "Ok" THEN result ELSE Err("build", NoPath)
    /\ touched' = {}
    /\ full_rebuild' = FALSE
    /\ jobs' = <<>>
    /\ order' = <<>>
    /\ output_files' = <<>>
    /\ link' = NoLink
    /\ result' = NoResult
    /\ obj_mtime' = IF result.tag = "Ok" THEN obj_mtime
                    ELSE [o \in DOMAIN obj_mtime |-> 0]
    /\ start' = Snapshot(src_mtime, obj_mtime', art_mtime)
    /\ last_link' = LastLink(link, full_rebuild, start,
                             Snapshot(src_mtime, obj_mtime, art_mtime))
    /\ UNCHANGED <<graph, cli, setup, src_mtime, art_mtime, dirs, clock, builds>>

\* build has returned; the next invocation starts from the file system it left.
Return ==
    /\ pc = "done"
    /\ pc' = "idle"
    /\ prev' = IF result.tag = "Ok" THEN result ELSE Err("build", NoPath)
    /\ touched' = {}
    /\ full_rebuild' = FALSE
    /\ jobs' = <<>>
    /\ order' = <<>>
    /\ output_files' = <<>>
    /\ link' = NoLink
    /\ result' = NoResult
    /\ start' = Snapshot(src_mtime, obj_mtime, art_mtime)
    /\ last_link' = LastLink(link, full_rebuild, start,
                             Snapshot(src_mtime, obj_mtime, art_mtime))
    /\ UNCHANGED <<graph, cli, setup, src_mtime, obj_mtime, art_mtime, dirs, clock,
                   builds>>

-----------------------------------------------------------------------------
(* Environment *)

Tick ==
    /\ clock < MaxClock
    /\ clock' = clock + 1
    /\ UNCHANGED <<graph, cli, last_link, setup, full_rebuild, src_mtime, obj_mtime, art_mtime, dirs,
                   pc, jobs, order, output_files, link, result, start, prev,
                   touched, builds>>

\* A source of the target is touched between two builds.
Touch(f) ==
    /\ pc = "idle"
    /\ prev # NoResult
    /\ builds < MaxBuilds
    /\ Exists(f)
    /\ \E i \in DOMAIN NewJobs(graph) : NewJobs(graph)[i].path = f
    /\ clock > src_mtime[f]
    /\ src_mtime' = [src_mtime EXCEPT ![f] = clock]
    /\ touched' = touched \cup {f}
    /\ start' = Snapshot(src_mtime', obj_mtime, art_mtime)
    /\ UNCHANGED <<graph, cli, last_link, setup, full_rebuild, obj_mtime, art_mtime, dirs, clock, pc,
                   jobs, order, output_files, link, result, prev, builds>>

Next ==
    \/ \E B \in BOOLEAN : StartBuild(B)
    \/ \E i \in DOMAIN jobs, ok \in BOOLEAN : JobCheck(i, ok)
    \/ \E i \in DOMAIN jobs, ok \in BOOLEAN : JobExit(i, ok)
    \/ JoinAll
    \/ \E ok \in BOOLEAN : LinkCheck(ok)
    \/ \E ok \in BOOLEAN : LinkExit(ok)
    \/ Return
    \/ \E f \in SourceFiles : Touch(f)
    \/ Tick

Spec == Init /\ [][Next]_vars

\* The runtime runs every task that can run, and every spawned compiler and
\* linker process exits.
Fairness ==
    /\ WF_vars(\E i \in DOMAIN jobs, ok \in BOOLEAN : JobCheck(i, ok))
    /\ WF_vars(\E i \in DOMAIN jobs, ok \in BOOLEAN : JobExit(i, ok))
    /\ WF_vars(JoinAll)
    /\ WF_vars(\E ok \in BOOLEAN : LinkCheck(ok))
    /\ WF_vars(\E ok \in BOOLEAN : LinkExit(ok))

\* The builds of a target one after the other, on unchanged sources.
NextLive ==
    \/ \E B \in BOOLEAN : StartBuild(B)
    \/ \E i \in DOMAIN jobs, ok \in BOOLEAN : JobCheck(i, ok)
    \/ \E i \in DOMAIN jobs, ok \in BOOLEAN : JobExit(i, ok)
    \/ JoinAll
    \/ \E ok \in BOOLEAN : LinkCheck(ok)
    \/ \E ok \in BOOLEAN : LinkExit(ok)
    \/ Return
    \/ Tick

SpecLive == Init /\ [][NextLive]_vars /\ Fairness

-----------------------------------------------------------------------------
(* Discovery alone, over every target description of the bounded universe *)

AllEntries == Dirs \cup SourceFiles \cup {Gone}
AllExcludes ==
    {NoExcludes, Excludes({}), Excludes({SubDir}), Excludes({SrcDir, FileAS}),
     Excludes({SubDir, FileAS})}

InitDiscovery ==
    /\ graph \in Graphs(SeqsUpTo(AllEntries, MaxEntries), AllExcludes,
                         {SrcDir, SubDir}, ToolChains)
    /\ InitFs(graph)
    /\ InitBuild

NextDiscovery == \E B \in BOOLEAN : StartBuild(B)

SpecDiscovery == InitDiscovery /\ [][NextDiscovery]_vars

-----------------------------------------------------------------------------
(* Cache-directory setup of several builds running at once: the head of     *)
(* Graph::build, one step per filesystem call, each call being an await     *)
(* point at which another build's task may run.  StartBuild takes the same  *)
(* lines in one step, for a build that runs alone.                          *)

SetupGraphs == Graphs({<<FileAC>>, <<FileBC>>}, {NoExcludes}, {SrcDir}, {Clang})

\* The object directory of the build's source file.
ObjParent(g) == parent(NewJobs(g)[1].output_path)

\* fs::try_exists(CACHE_DIR)
TryCache(b) ==
    /\ setup[b].pc = "try_cache"
    /\ setup' = [setup EXCEPT ![b].pc =
                    IF CACHE_DIR \in dirs THEN "try_obj" ELSE "create_cache"]
    /\ UNCHANGED <<graph, cli, last_link, full_rebuild, src_mtime, obj_mtime, art_mtime, dirs,
                   clock, pc, jobs, order, output_files, link, result, start,
                   prev, touched, builds>>

\* fs::create_dir(CACHE_DIR)?: an error when the directory exists.
CreateCache(b) ==
    /\ setup[b].pc = "create_cache"
    /\ IF CACHE_DIR \in dirs
       THEN /\ setup' = [setup EXCEPT ![b].pc = "failed"]
            /\ dirs' = dirs
       ELSE /\ setup' = [setup EXCEPT ![b].pc = "try_obj"]
            /\ dirs' = dirs \cup {CACHE_DIR}
    /\ UNCHANGED <<graph, cli, last_link, full_rebuild, src_mtime, obj_mtime, art_mtime,
                   clock, pc, jobs, order, output_files, link, result, start,
                   prev, touched, builds>>

\* fs::try_exists(&obj_dir)
TryObj(b) ==
    /\ setup[b].pc = "try_obj"
    /\ setup' = [setup EXCEPT ![b].pc =
                    IF Join(CACHE_DIR, OBJ_DIR) \in dirs THEN "try_parent"
                    ELSE "create_obj"]
    /\ UNCHANGED <<graph, cli, last_link, full_rebuild, src_mtime, obj_mtime, art_mtime, dirs,
                   clock, pc, jobs, order, output_files, link, result, start,
                   prev, touched, builds>>

\* fs::create_dir(&obj_dir)?: an error when the directory exists.
CreateObj(b) ==
    /\ setup[b].pc = "create_obj"
    /\ IF Join(CACHE_DIR, OBJ_DIR) \in dirs
       THEN /\ setup' = [setup EXCEPT ![b].pc = "failed"]
            /\ dirs' = dirs
       ELSE /\ setup' = [setup EXCEPT ![b].pc = "try_parent"]
            /\ dirs' = dirs \cup {Join(CACHE_DIR, OBJ_DIR)}
    /\ UNCHANGED <<graph, cli, last_link, full_rebuild, src_mtime, obj_mtime, art_mtime,
                   clock, pc, jobs, order, output_files, link, result, start,
                   prev, touched, builds>>

\* fs::try_exists(dir) for the parent of the object path
TryParent(b) ==
    /\ setup[b].pc = "try_parent"
    /\ setup' = [setup EXCEPT ![b].pc =
                    IF ObjParent(setup[b].graph) \in dirs THEN "ready"
                    ELSE "create_parent"]
    /\ UNCHANGED <<graph, cli, last_link, full_rebuild, src_mtime, obj_mtime, art_mtime, dirs,
                   clock, pc, jobs, order, output_files, link, result, start,
                   prev, touched, builds>>

\* fs::create_dir_all(dir)?: no error when the directory exists.
CreateParent(b) ==
    /\ setup[b].pc = "create_parent"
    /\ setup' = [setup EXCEPT ![b].pc = "ready"]
    /\ dirs' = dirs \cup Ancestors(ObjParent(setup[b].graph))
    /\ UNCHANGED <<graph, cli, last_link, full_rebuild, src_mtime, obj_mtime, art_mtime,
                   clock, pc, jobs, order, output_files, link, result, start,
                   prev, touched, builds>>

InitSetup ==
    /\ graph \in Graphs({<<>>}, {NoExcludes}, {SrcDir}, {Clang})
    /\ src_mtime = [f \in SourceFiles |-> 1]
    /\ obj_mtime = [o \in ObjPathsOf(graph) |-> 0]
    /\ art_mtime = 0
    /\ dirs \in {{}, {CACHE_DIR}}
    /\ clock = 1
    /\ full_rebuild = FALSE
    /\ pc = "idle"
    /\ jobs = <<>>
    /\ order = <<>>
    /\ output_files = <<>>
    /\ link = NoLink
    /\ result = NoResult
    /\ start = Snapshot(src_mtime, obj_mtime, art_mtime)
    /\ prev = NoResult
    /\ touched = {}
    /\ builds = 0
    /\ last_link = NoLastLink
    /\ cli = NoCli
    /\ setup \in [1..NumTargets -> [graph : SetupGraphs, pc : {"try_cache"}]]

NextSetup ==
    \/ \E b \in DOMAIN setup : TryCache(b)
    \/ \E b \in DOMAIN setup : CreateCache(b)
    \/ \E b \in DOMAIN setup : TryObj(b)
    \/ \E b \in DOMAIN setup : CreateObj(b)
    \/ \E b \in DOMAIN setup : TryParent(b)
    \/ \E b \in DOMAIN setup : CreateParent(b)

SpecSetup == InitSetup /\ [][NextSetup]_vars

-----------------------------------------------------------------------------
(* One command-line invocation: main runs the build script, the script       *)
(* builds its target through `build_and_install`, or through `build` and     *)
(* `install`, and main turns the script's outcome into the exit code.  A     *)
(* script either ignores a nil returned by install or raises an error on it. *)

CliGraphs ==
    Graphs({<<FileAC, Gone>>, <<SubDir, FileAC>>}, {NoExcludes}, {SrcDir}, {Clang})

InitCli ==
    /\ graph \in CliGraphs
    /\ InitFs(graph)
    /\ full_rebuild = FALSE
    /\ pc = "script"
    /\ jobs = <<>>
    /\ order = <<>>
    /\ output_files = <<>>
    /\ link = NoLink
    /\ result = NoResult
    /\ start = Snapshot(src_mtime, obj_mtime, art_mtime)
    /\ prev = NoResult
    /\ touched = {}
    /\ builds = 0
    /\ setup = <<>>
    /\ last_link = NoLastLink
    /\ cli \in [mode : {"none"}, on_nil : {"ignore", "error"}, handle : {"None"},
                installs : {0}, got : {"nothing"}, lua : {"running"},
                exit : {"none"}]

\* The `build` method: the build is spawned as a task of its own and the
\* script gets a TargetHandle::InProgress.
LuaBuild ==
    /\ pc = "script"
    /\ cli.lua = "running"
    /\ cli.mode = "none"
    /\ cli' = [cli EXCEPT !.mode = "build", !.handle = "InProgress"]
    /\ pc' = "idle"
    /\ UNCHANGED <<graph, full_rebuild, src_mtime, obj_mtime, art_mtime, dirs,
                   clock, jobs, order, output_files, link, result, start, prev,
                   touched, builds, setup, last_link>>

\* The `build_and_install` method: the build is awaited in the call.
LuaBuildAndInstall ==
    /\ pc = "script"
    /\ cli.lua = "running"
    /\ cli.mode = "none"
    /\ cli' = [cli EXCEPT !.mode = "build_and_install"]
    /\ pc' = "idle"
    /\ UNCHANGED <<graph, full_rebuild, src_mtime, obj_mtime, art_mtime, dirs,
                   clock, jobs, order, output_files, link, result, start, prev,
                   touched, builds, setup, last_link>>

\* this.inner.build().await.into_lua_err(): the path, or a Lua error.
BuildAndInstallReturn ==
    /\ cli.mode = "build_and_install"
    /\ cli.lua = "running"
    /\ cli.got = "nothing"
    /\ pc = "done"
    /\ cli' = IF result.tag = "Ok" THEN [cli EXCEPT !.got = "path"]
              ELSE [cli EXCEPT !.lua = "error"]
    /\ UNCHANGED <<graph, full_rebuild, src_mtime, obj_mtime, art_mtime, dirs,
                   clock, pc, jobs, order, output_files, link, result, start,
                   prev, touched, builds, setup, last_link>>

\* The `install` method.  InProgress: the handle is awaited, a panic of the
\* task becomes a Lua error, the build's Result is turned into an Option by
\* ok(), the handle becomes Done and the Option is returned.  Done: the
\* stored Option is returned.
Install ==
    /\ cli.mode = "build"
    /\ cli.lua = "running"
    /\ cli.installs < MaxInstalls
    /\ cli.handle = "InProgress" => pc = "done"
    /\ LET path == IF cli.handle = "InProgress"
                   THEN (IF result.tag = "Ok" THEN "path" ELSE "nil")
                   ELSE (IF cli.handle = "DoneSome" THEN "path" ELSE "nil")
       IN  IF cli.handle = "InProgress" /\ result.tag = "Panic"
           THEN cli' = [cli EXCEPT !.lua = "error", !.installs = @ + 1]
           ELSE cli' = [cli EXCEPT
                          !.handle = IF path = "path" THEN "DoneSome" ELSE "DoneNone",
                          !.installs = @ + 1,
                          !.got = path,
                          !.lua = IF path = "nil" /\ cli.on_nil = "error"
                                  THEN "error" ELSE "running"]
    /\ UNCHANGED <<graph, full_rebuild, src_mtime, obj_mtime, art_mtime, dirs,
                   clock, pc, jobs, order, output_files, link, result, start,
                   prev, touched, builds, setup, last_link>>

\* The build script returns once it has the outcome of its build.
ScriptEnd ==
    /\ cli.lua = "running"
    /\ cli.got # "nothing"
    /\ cli' = [cli EXCEPT !.lua = "finished"]
    /\ UNCHANGED <<graph, full_rebuild, src_mtime, obj_mtime, art_mtime, dirs,
                   clock, pc, jobs, order, output_files, link, result, start,
                   prev, touched, builds, setup, last_link>>

\* main: Ok(_) => ExitCode::SUCCESS, Err(e) => ExitCode::FAILURE.
Exit ==
    /\ cli.lua \in {"finished", "error"}
    /\ cli.exit = "none"
    /\ cli' = [cli EXCEPT !.exit = IF cli.lua = "finished" THEN "SUCCESS"
                                   ELSE "FAILURE"]
    /\ UNCHANGED <<graph, full_rebuild, src_mtime, obj_mtime, art_mtime, dirs,
                   clock, pc, jobs, order, output_files, link, result, start,
                   prev, touched, builds, setup, last_link>>

NextCli ==
    \/ LuaBuild
    \/ LuaBuildAndInstall
    \/ \E B \in BOOLEAN : StartBuild(B)
    \/ \E i \in DOMAIN jobs, ok \in BOOLEAN : JobCheck(i, ok)
    \/ \E i \in DOMAIN jobs, ok \in BOOLEAN : JobExit(i, ok)
    \/ JoinAll
    \/ \E ok \in BOOLEAN : LinkCheck(ok)
    \/ \E ok \in BOOLEAN : LinkExit(ok)
    \/ BuildAndInstallReturn
    \/ Install
    \/ ScriptEnd
    \/ Exit

SpecCli == InitCli /\ [][NextCli]_vars

-----------------------------------------------------------------------------
(* The link configuration: every toolchain, binary type and library setting, *)
(* on an empty cache or on the objects and the artifact an earlier build of  *)
(* the same sources left behind                                              *)

LinkToolChains == ToolChains \cup {Custom("tcc", "mold")}
LinkLibs ==
    {[libs |-> <<>>, lib_paths |-> <<>>],
     [libs |-> <<"m">>, lib_paths |-> <<>>],
     [libs |-> <<>>, lib_paths |-> <<"lib">>]}

LinkGraphs ==
    {[tool_chain |-> t, typ |-> b, files |-> <<FileAC, FileBC>>,
      excludes |-> NoExcludes, src_dir |-> SrcDir, output |-> P(<<"a">>, ""),
      libs |-> l.libs, lib_paths |-> l.lib_paths] :
        t \in LinkToolChains, b \in BinaryTypes, l \in LinkLibs}

\* The target's objects and the artifact are on disk, as old as the sources.
InitFsBuilt(g) ==
    /\ src_mtime = [f \in SourceFiles |-> 1]
    /\ obj_mtime = [o \in ObjPathsOf(g) |->
                      IF \E i \in DOMAIN NewJobs(g) : NewJobs(g)[i].output_path = o
                      THEN 1 ELSE 0]
    /\ art_mtime = 1
    /\ dirs = {CACHE_DIR, Join(CACHE_DIR, OBJ_DIR)}
    /\ clock = 1

\* The target's objects are on disk and the artifact is not, as after a
\* build whose link step failed.
InitFsUnlinked(g) ==
    /\ src_mtime = [f \in SourceFiles |-> 1]
    /\ obj_mtime = [o \in ObjPathsOf(g) |->
                      IF \E i \in DOMAIN NewJobs(g) : NewJobs(g)[i].output_path = o
                      THEN 1 ELSE 0]
    /\ art_mtime = 0
    /\ dirs = {CACHE_DIR, Join(CACHE_DIR, OBJ_DIR)}
    /\ clock = 1

InitLink ==
    /\ graph \in LinkGraphs
    /\ InitFs(graph) \/ InitFsBuilt(graph) \/ InitFsUnlinked(graph)
    /\ InitBuild

NextLink ==
    \/ \E B \in BOOLEAN : StartBuild(B)
    \/ \E i \in DOMAIN jobs, ok \in BOOLEAN : JobCheck(i, ok)
    \/ \E i \in DOMAIN jobs, ok \in BOOLEAN : JobExit(i, ok)
    \/ JoinAll
    \/ \E ok \in BOOLEAN : LinkCheck(ok)
    \/ \E ok \in BOOLEAN : LinkExit(ok)
    \/ Return

SpecLink == InitLink /\ [][NextLink]_vars

-----------------------------------------------------------------------------
(* Properties *)

Spawned(i) == jobs[i].spawn # "no"
Checks(i) ==
    /\ jobs[i].st = "Unchecked"
    /\ i \in DOMAIN jobs'
    /\ jobs'[i].st # "Unchecked"
ObjAbsent(i) == obj_mtime[jobs[i].output_path] = 0
PrevOk == prev.tag = "Ok"

\* C1 (as stated): a file whose object does not exist when its staleness
\* check runs goes to Compiling (the compiler is spawned) and is never
\* Skipped, with or without the full-rebuild override.
C1_MissingObjectCompiles ==
    [][\A i \in DOMAIN jobs :
         (Checks(i) /\ ObjAbsent(i))
            => (jobs'[i].spawn # "no" /\ jobs'[i].st # "Skipped")]_vars

\* C1 (amended): a file whose object does not exist when its staleness check
\* runs is never Skipped, and it goes to Compiling when the override is set
\* or the source's metadata can be read; without the override a source that
\* does not exist fails the check before any spawn.
C1_MissingObjectCompilesIfSourceReadable ==
    [][\A i \in DOMAIN jobs :
         (Checks(i) /\ ObjAbsent(i))
            => /\ jobs'[i].st # "Skipped"
               /\ (full_rebuild \/ Exists(jobs[i].path)) => jobs'[i].spawn # "no"
               /\ (~full_rebuild /\ ~Exists(jobs[i].path))
                     => (jobs'[i].spawn = "no" /\ jobs'[i].st = "Failed")]_vars

\* C1 witness: without the override, a compiler was spawned for an existing
\* source whose object did not exist when the build started.
C1_Witness ==
    \E i \in DOMAIN jobs :
        /\ ~full_rebuild
        /\ jobs[i].spawn = "ok"
        /\ start.obj[jobs[i].output_path] = 0

\* C2: without the override, a file whose object exists and whose source is
\* not strictly newer than the object is Skipped: no compiler is spawned, no
\* object is modified, and the task yields the OutputFile of its object path.
C2_UpToDateSkipped ==
    /\ [][\A i \in DOMAIN jobs :
            (/\ Checks(i)
             /\ ~full_rebuild
             /\ Exists(jobs[i].path)
             /\ ~ObjAbsent(i)
             /\ src_mtime[jobs[i].path] <= obj_mtime[jobs[i].output_path])
               => /\ jobs'[i].st = "Skipped"
                  /\ jobs'[i].spawn = "no"
                  /\ jobs'[i].res = Ok(jobs[i].output_path)
                  /\ obj_mtime' = obj_mtime]_vars
    /\ [](\A i \in DOMAIN jobs :
            jobs[i].st = "Skipped"
               => jobs[i].spawn = "no" /\ jobs[i].res = Ok(jobs[i].output_path))

\* C2 witness: a job was Skipped on an object exactly as old as its source,
\* next to a sibling that was compiled.
C2_Witness ==
    \E i, j \in DOMAIN jobs :
        /\ jobs[i].st = "Skipped"
        /\ src_mtime[jobs[i].path] = obj_mtime[jobs[i].output_path]
        /\ jobs[j].spawn = "ok"
        /\ jobs[i].output_path # jobs[j].output_path

\* C3: with the full-rebuild override every checked file is Compiling, none
\* is Skipped, and the link step, once reached, is Linking and never Skipped;
\* it is reached whenever every compile succeeded.
C3_FullRebuild ==
    full_rebuild =>
        /\ \A i \in DOMAIN jobs :
              /\ jobs[i].st # "Unchecked" => Spawned(i)
              /\ jobs[i].st # "Skipped"
        /\ link.st # "Skipped"
        /\ link.st # "Unchecked" => link.spawn # "no"
        /\ (pc = "done" /\ \A i \in DOMAIN jobs : jobs[i].res.tag = "Ok")
              => link.spawn # "no"

\* C3 witness: under the override the linker ran although the artifact and
\* every object existed and were up to date when the build started.
C3_Witness ==
    /\ full_rebuild
    /\ link.spawn = "ok"
    /\ Len(jobs) >= 2
    /\ start.art # 0
    /\ \A i \in DOMAIN jobs :
          /\ jobs[i].spawn = "ok"
          /\ start.obj[jobs[i].output_path] # 0
          /\ start.src[jobs[i].path] <= start.obj[jobs[i].output_path]
          /\ start.obj[jobs[i].output_path] <= start.art

\* C4: the build after a build that returned the artifact, with no source
\* touched and without the override, spawns no compiler and no linker and
\* returns the same artifact path.
C4_SecondBuildIsNoOp ==
    (pc = "done" /\ PrevOk /\ touched = {} /\ ~full_rebuild)
       => /\ \A i \in DOMAIN jobs : jobs[i].spawn = "no"
          /\ link.spawn = "no"
          /\ result = prev

\* C4 witness: such a second build of two files has returned.
C4_Witness ==
    /\ pc = "done"
    /\ PrevOk
    /\ touched = {}
    /\ ~full_rebuild
    /\ Len(jobs) >= 2
    /\ result.tag = "Ok"
    /\ \E i \in DOMAIN jobs : obj_mtime[jobs[i].output_path] = art_mtime

\* C5 (as stated): after a build that returned the artifact and a touch of
\* the sources S, the next build without the override spawns a compiler for
\* exactly the files of S and the linker exactly when S is not empty.  Stated
\* for the builds in which no process failed, where the claim is at its
\* strongest.
C5_ExactlyTouchedRebuilt ==
    (pc = "done" /\ PrevOk /\ ~full_rebuild /\ result.tag = "Ok")
       => /\ \A i \in DOMAIN jobs : Spawned(i) <=> jobs[i].path \in touched
          /\ link.spawn # "no" <=> touched # {}

\* C5 (amended): the next build spawns a compiler only for files of S whose
\* new time is strictly newer than their object's, and for every file still
\* strictly newer than its object; for a file that shares its object path
\* with no sibling these are exactly the files of S strictly newer than the
\* object the previous build left.  The linker is invoked exactly when no
\* compile job failed and some object is strictly newer than the artifact
\* the previous build left.
C5_TouchedAndNewerRebuilt ==
    (pc = "done" /\ PrevOk /\ ~full_rebuild)
       => /\ \A i \in DOMAIN jobs :
                Spawned(i) => /\ jobs[i].path \in touched
                              /\ src_mtime[jobs[i].path] > start.obj[jobs[i].output_path]
          /\ \A i \in DOMAIN jobs :
                src_mtime[jobs[i].path] > obj_mtime[jobs[i].output_path] => Spawned(i)
          /\ \A i \in DOMAIN jobs :
                (\A j \in DOMAIN jobs \ {i} :
                    jobs[j].output_path # jobs[i].output_path)
                   => (Spawned(i) <=>
                         /\ jobs[i].path \in touched
                         /\ src_mtime[jobs[i].path] > start.obj[jobs[i].output_path])
          /\ link.spawn # "no" <=>
                /\ \A i \in DOMAIN jobs : jobs[i].st # "Failed"
                /\ \E i \in DOMAIN jobs : obj_mtime[jobs[i].output_path] > start.art

\* C5 witness: one of two files was touched, only it was recompiled, and the
\* artifact was linked again.
C5_Witness ==
    /\ pc = "done"
    /\ PrevOk
    /\ ~full_rebuild
    /\ link.st = "Completed"
    /\ \E i, j \in DOMAIN jobs :
          /\ jobs[i].path \in touched /\ jobs[i].st = "Completed"
          /\ jobs[j].path \notin touched /\ jobs[j].st = "Skipped"

\* C6: once a compile job has failed the link step is never entered and the
\* artifact stays as it was; the build returns a failure; the object of every
\* sibling that succeeded is on disk as a successful sibling wrote it.
C6_CompileFailureFailsBuild ==
    (\E i \in DOMAIN jobs : jobs[i].st = "Failed")
       => /\ link = NoLink
          /\ pc \notin {"link", "linking"}
          /\ art_mtime = start.art
          /\ pc = "done" => result.tag = "Err"
          /\ \A j \in DOMAIN jobs :
                jobs[j].st = "Completed"
                   => \E k \in DOMAIN jobs :
                         /\ jobs[k].st = "Completed"
                         /\ jobs[k].output_path = jobs[j].output_path
                         /\ obj_mtime[jobs[j].output_path] = jobs[k].wrote
                         /\ jobs[k].wrote # 0

\* C6 witness: the build returned a failure after one job failed at its
\* compiler's exit and a sibling succeeded.
C6_Witness ==
    /\ pc = "done"
    /\ \E i, j \in DOMAIN jobs :
          /\ jobs[i].st = "Failed" /\ jobs[i].spawn = "ok"
          /\ jobs[j].st = "Completed"

\* C9: the link step is entered, and a linker runs, only when every compile
\* job of the build has finished.
C9_LinkAfterAllJobs ==
    (pc \in {"link", "linking"} \/ link # NoLink)
       => \A i \in DOMAIN jobs : Terminal(jobs[i].st)

\* C9 witness: a linker is running after two jobs, one of which was compiled.
C9_Witness ==
    /\ pc = "linking"
    /\ Len(jobs) >= 2
    /\ \E i \in DOMAIN jobs : jobs[i].st = "Completed"

\* C8 (as stated): no two compile jobs running at the same time write the
\* same object path.  Stated for jobs of two different sources; a source
\* configured twice gives two such jobs as well.
C8_RunningJobsWriteDistinctObjects ==
    \A i, j \in DOMAIN jobs :
        (/\ jobs[i].path # jobs[j].path
         /\ jobs[i].st = "Compiling"
         /\ jobs[j].st = "Compiling")
           => jobs[i].output_path # jobs[j].output_path

UnderSrcDir(p) == StartsWith(p, graph.src_dir)

\* C7 (as stated): two distinct source paths under the source root never get
\* the same object path.
C7_ObjectPathInjective ==
    \A i, j \in DOMAIN jobs :
        (/\ jobs[i].path # jobs[j].path
         /\ UnderSrcDir(jobs[i].path)
         /\ UnderSrcDir(jobs[j].path))
           => jobs[i].output_path # jobs[j].output_path

Entries == {graph.files[k] : k \in DOMAIN graph.files}
Excluded(e) == graph.excludes.some /\ e \in graph.excludes.paths
ExcludedDirs == {e \in Entries : is_dir(e) /\ Excluded(e)}

\* C10 (as stated): when a configured directory is also in the exclusion
\* list, no file under it gets a compile job.
C10_ExcludedDirectoryGone ==
    \A e \in ExcludedDirs : \A i \in DOMAIN jobs : ~StartsWith(jobs[i].path, e)

\* C10 (amended): an excluded configured directory contributes nothing: no
\* job is a directory, and every job's file is, or lies under, a configured
\* entry that is not excluded, so a file under an excluded directory gets a
\* job only through another, non-excluded entry.
C10_OnlyThroughOtherEntries ==
    \A i \in DOMAIN jobs :
        /\ ~is_dir(jobs[i].path)
        /\ \E e \in Entries : ~Excluded(e) /\ StartsWith(jobs[i].path, e)

\* C10 witness: a build started with an excluded directory entry and a job
\* for another entry, none under the excluded directory.
C10_Witness ==
    /\ pc = "compile"
    /\ jobs # <<>>
    /\ ExcludedDirs # {}
    /\ \A e \in ExcludedDirs : \A i \in DOMAIN jobs : ~StartsWith(jobs[i].path, e)

UnsupportedCombination(g) ==
    \/ g.tool_chain.kind \in {"Gcc", "Clang", "Zig"} /\ g.typ \in {"DynLib", "StaticLib"}
    \/ g.tool_chain.kind = "Msvc" /\ g.typ = "DynLib"
UnimplementedFlag(g) ==
    g.tool_chain.kind = "Msvc" /\ (g.libs # <<>> \/ g.lib_paths # <<>>)
ConfigurationError(g) == UnsupportedCombination(g) \/ UnimplementedFlag(g)

\* C11: whenever a linker is invoked its program is lib.exe for (Msvc,
\* StaticLib), link.exe for (Msvc, Executable), gcc, clang and zig for
\* (Gcc|Clang|Zig, Executable), and the configured linker name for a Custom
\* toolchain with any binary type; these combinations always resolve.
C11_LinkerResolution ==
    /\ link.spawn # "no" =>
          LET k == graph.tool_chain.kind
              t == graph.typ
          IN  /\ (k = "Msvc" /\ t = "StaticLib") => link.program = "lib.exe"
              /\ (k = "Msvc" /\ t = "Executable") => link.program = "link.exe"
              /\ (k = "Gcc" /\ t = "Executable") => link.program = "gcc"
              /\ (k = "Clang" /\ t = "Executable") => link.program = "clang"
              /\ (k = "Zig" /\ t = "Executable") => link.program = "zig"
              /\ k = "Custom" => link.program = graph.tool_chain.linker
    /\ result.tag = "Panic" => ConfigurationError(graph)

\* C11 witness: the librarian was spawned for an Msvc static library.
C11_Witness ==
    /\ graph.tool_chain.kind = "Msvc"
    /\ graph.typ = "StaticLib"
    /\ link.spawn = "ok"
    /\ link.program = "lib.exe"

\* C12 (as stated): a build of a target with an unsupported toolchain and
\* binary type, or of an Msvc target with a library or a library search
\* path, never returns an artifact path, whatever is on disk.
C12_ConfigurationErrorIsFatal ==
    (ConfigurationError(graph) /\ pc = "done") => result.tag # "Ok"

\* C13 (as stated): in a build of such a target no compiler process is
\* spawned for any source file.
C13_NoCompilerBeforeConfigurationError ==
    ConfigurationError(graph) => \A i \in DOMAIN jobs : jobs[i].spawn # "ok"

\* C14: every compile job of the target is launched when the build enters
\* its compile phase; while a launched job has not finished nothing is
\* collected, the link step is not entered and the build does not return;
\* when the build returns every job has run to its own end, a spawned
\* compiler having exited; and when some job failed the build returns the
\* failure of one of the failed jobs.
C14_AllJobsRunToCompletion ==
    /\ pc # "idle" => DOMAIN jobs = DOMAIN NewJobs(graph)
    /\ (\E i \in DOMAIN jobs : ~Terminal(jobs[i].st))
          => /\ pc = "compile"
             /\ result = NoResult
             /\ output_files = <<>>
             /\ link = NoLink
    /\ pc = "done" =>
          \A i \in DOMAIN jobs :
              /\ Terminal(jobs[i].st)
              /\ jobs[i].spawn = "ok" =>
                    /\ jobs[i].st \in {"Completed", "Failed"}
                    /\ jobs[i].res.kind \in {"", "exit"}
              /\ \E k \in DOMAIN order : order[k] = i
    /\ (pc = "done" /\ \E i \in DOMAIN jobs : jobs[i].st = "Failed")
          => \E i \in DOMAIN jobs : jobs[i].st = "Failed" /\ result = jobs[i].res

\* C14 witness: the build returned the failure of the job that failed
\* first, after a sibling whose compiler was already running went on to
\* write its object.
C14_Witness ==
    /\ pc = "done"
    /\ Len(order) = 2
    /\ jobs[order[1]].st = "Failed"
    /\ result = jobs[order[1]].res
    /\ jobs[order[2]].st = "Completed"
    /\ jobs[order[2]].spawn = "ok"

AfterFailedBuild == prev.tag = "Err" /\ touched = {} /\ ~full_rebuild

\* C15 (as stated): in the build that follows a failed build of the same
\* unchanged target, without the override, a file whose object exists and is
\* not older than its source is Skipped, and a file whose object is missing
\* or older than its source is compiled again.
C15_FailedBuildObjectsReused ==
    [][\A i \in DOMAIN jobs :
         (Checks(i) /\ AfterFailedBuild)
            => /\ (/\ ~ObjAbsent(i)
                   /\ Exists(jobs[i].path)
                   /\ src_mtime[jobs[i].path] <= obj_mtime[jobs[i].output_path])
                     => jobs'[i].st = "Skipped"
               /\ (\/ ObjAbsent(i)
                   \/ /\ Exists(jobs[i].path)
                      /\ src_mtime[jobs[i].path] > obj_mtime[jobs[i].output_path])
                     => jobs'[i].spawn # "no"]_vars

\* C15 (amended): the return of a build, failed or not, leaves every object
\* and the artifact on disk as they are; in the build that follows a failed
\* build of the unchanged target, without the override, a file whose object
\* exists and is not older than its source is Skipped, a file whose source
\* can be read and whose object is missing or older than the source is
\* compiled again, and a file whose source does not exist fails its
\* staleness check again with no compiler spawned.
C15_NoRollback ==
    /\ [][(pc = "done" /\ pc' = "idle")
            => (obj_mtime' = obj_mtime /\ art_mtime' = art_mtime)]_vars
    /\ [][\A i \in DOMAIN jobs :
            (Checks(i) /\ AfterFailedBuild)
               => /\ (/\ ~ObjAbsent(i)
                      /\ Exists(jobs[i].path)
                      /\ src_mtime[jobs[i].path] <= obj_mtime[jobs[i].output_path])
                        => (jobs'[i].st = "Skipped" /\ jobs'[i].spawn = "no")
                  /\ (/\ Exists(jobs[i].path)
                      /\ \/ ObjAbsent(i)
                         \/ src_mtime[jobs[i].path] > obj_mtime[jobs[i].output_path])
                        => jobs'[i].spawn # "no"
                  /\ ~Exists(jobs[i].path)
                        => (jobs'[i].st = "Failed" /\ jobs'[i].spawn = "no")]_vars

\* C15 witness: in the build after a failed one, the object the failed build
\* produced is reused and the file that had left no object is compiled.
C15_Witness ==
    /\ AfterFailedBuild
    /\ \E i, j \in DOMAIN jobs :
          /\ jobs[i].st = "Skipped"
          /\ start.obj[jobs[i].output_path] # 0
          /\ jobs[j].spawn = "ok"
          /\ start.obj[jobs[j].output_path] = 0

\* C16 (as stated): of the builds started together where the cache root or
\* its object subdirectory does not exist yet, none fails in its
\* cache-directory setup, whatever the interleaving.
C16_ConcurrentSetupSucceeds ==
    \A b \in DOMAIN setup : setup[b].pc # "failed"

\* The files of the source tree at any depth below a directory.
Descendants(d) == {f \in SourceFiles : StartsWith(f, d) /\ f # d}

\* C17: every file at any depth below a configured directory that is not
\* itself in the exclusion list gets a compile job, whatever else the
\* exclusion list names.
C17_ExclusionsOnlyTopLevel ==
    pc = "compile" =>
        \A e \in Entries :
            (is_dir(e) /\ ~Excluded(e))
               => \A f \in Descendants(e) :
                     \E i \in DOMAIN jobs : jobs[i].path = f

\* C17 witness: the exclusion list names a subdirectory and a file inside a
\* configured directory, and both the file and the subdirectory's file have
\* a job.
C17_Witness ==
    /\ pc = "compile"
    /\ graph.excludes.some
    /\ \E e \in Entries, x, y \in graph.excludes.paths :
          /\ is_dir(e) /\ ~Excluded(e)
          /\ is_dir(x) /\ x # e /\ StartsWith(x, e)
          /\ ~is_dir(y) /\ StartsWith(y, e)
          /\ \E i \in DOMAIN jobs : jobs[i].path = y
          /\ \E i \in DOMAIN jobs : StartsWith(jobs[i].path, x)

\* C18: without the override, the job of a configured source that does not
\* exist fails with the metadata error and spawns no compiler, the link step
\* is not entered, the artifact is not written, and the build returns a
\* failure.
C18_MissingSourceFailsBuild ==
    ~full_rebuild =>
        \A i \in DOMAIN jobs :
            (~Exists(jobs[i].path) /\ jobs[i].st # "Unchecked")
               => /\ jobs[i].st = "Failed"
                  /\ jobs[i].spawn = "no"
                  /\ jobs[i].res = Err("metadata", jobs[i].path)
                  /\ link = NoLink
                  /\ pc \notin {"link", "linking"}
                  /\ art_mtime = start.art
                  /\ pc = "done" => result.tag = "Err"

\* C18 witness: a build without the override returned the metadata error of
\* a source that does not exist, its sibling having compiled.
C18_Witness ==
    /\ ~full_rebuild
    /\ pc = "done"
    /\ result.kind = "metadata"
    /\ \E i, j \in DOMAIN jobs :
          /\ ~Exists(jobs[i].path)
          /\ result = jobs[i].res
          /\ jobs[j].st = "Completed"

\* C19: whenever a linker is invoked, its object arguments are the object
\* paths of the build's compile jobs, each as many times as there are jobs
\* with that object path, Skipped or compiled, and nothing else.
C19_LinkerGetsEveryObject ==
    link.spawn # "no" =>
        /\ Len(link.files) = Len(jobs)
        /\ \A k \in DOMAIN link.files :
              \E i \in DOMAIN jobs : jobs[i].output_path = link.files[k]
        /\ \A i \in DOMAIN jobs :
              Cardinality({k \in DOMAIN link.files :
                              link.files[k] = jobs[i].output_path})
                = Cardinality({j \in DOMAIN jobs :
                                  jobs[j].output_path = jobs[i].output_path})

\* C19 witness: a linker was spawned with the object of a Skipped file and
\* the object of a file compiled in this build.
C19_Witness ==
    /\ link.spawn = "ok"
    /\ \E i, j \in DOMAIN jobs :
          /\ jobs[i].st = "Skipped"
          /\ jobs[j].st = "Completed"
          /\ jobs[i].output_path # jobs[j].output_path
          /\ \E k, l \in DOMAIN link.files :
                /\ link.files[k] = jobs[i].output_path
                /\ link.files[l] = jobs[j].output_path

\* C20: when a build returns the artifact path, every source of the target
\* exists, its object exists and is not older than the source, and the
\* artifact exists and is not older than any object.
C20_BuiltTargetUpToDate ==
    (pc = "done" /\ result.tag = "Ok")
       => /\ art_mtime # 0
          /\ result.path = output(graph)
          /\ \A i \in DOMAIN jobs :
                /\ Exists(jobs[i].path)
                /\ obj_mtime[jobs[i].output_path] # 0
                /\ obj_mtime[jobs[i].output_path] >= src_mtime[jobs[i].path]
                /\ art_mtime >= obj_mtime[jobs[i].output_path]

\* C20 witness: a build returned the artifact with one object as old as its
\* source, one object newer than its source, and the artifact as old as the
\* newest object.
C20_Witness ==
    /\ pc = "done"
    /\ result.tag = "Ok"
    /\ \E i, j \in DOMAIN jobs :
          /\ obj_mtime[jobs[i].output_path] = src_mtime[jobs[i].path]
          /\ obj_mtime[jobs[j].output_path] > src_mtime[jobs[j].path]
          /\ art_mtime = obj_mtime[jobs[j].output_path]

\* C21 (as stated): a build that starts from the file-system state the
\* previous build of the target started from, with the same override, hands
\* its linker the object paths in the order the previous build did.
C21_LinkerArgumentsDetermined ==
    (/\ link.spawn # "no"
     /\ last_link.some
     /\ last_link.fr = full_rebuild
     /\ touched = {}
     /\ start = Snapshot(src_mtime, obj_mtime, art_mtime))
       => link.files = last_link.files

Running == pc \in {"compile", "link", "linking"}

\* C22: a build that has started eventually returns, with the artifact path
\* or with a failure, and it has not returned while a compiler or a linker
\* it spawned is still running.
C22_BuildReturns ==
    /\ Running ~> (pc = "done")
    /\ [](pc = "done" =>
            /\ result.tag \in {"Ok", "Err"}
            /\ \A i \in DOMAIN jobs : jobs[i].st # "Compiling"
            /\ link.st # "Linking")

\* C22 witness: a build returned the artifact after two compilers and the
\* linker had exited.
C22_Witness ==
    /\ pc = "done"
    /\ result.tag = "Ok"
    /\ link.st = "Completed"
    /\ Len(jobs) = 2
    /\ \A i \in DOMAIN jobs : jobs[i].st = "Completed"

\* C23 (as stated): an invocation whose build failed exits with the failure
\* code, whether the script built through build_and_install or through
\* build and install.
C23_FailedBuildExitsNonZero ==
    (cli.exit # "none" /\ pc = "done" /\ result.tag # "Ok")
       => cli.exit = "FAILURE"

IsZig == graph.tool_chain.kind = "Zig"
\* cc is the first argument, other arguments follow, and none of them is cc.
LeadingCc(args) ==
    /\ Len(args) >= 2
    /\ args[1] = Tok("cc")
    /\ \A k \in 2..Len(args) : args[k] # Tok("cc")
NoCc(args) == \A k \in DOMAIN args : args[k] # Tok("cc")

\* C24: for the Zig toolchain every compile command and every link command
\* has cc as its first argument, before the input and output flags and all
\* other arguments; for every other toolchain no command has a cc argument.
C24_ZigSubcommandFirst ==
    /\ \A i \in DOMAIN jobs :
          jobs[i].spawn # "no" =>
              /\ IsZig => LeadingCc(jobs[i].args)
              /\ ~IsZig => NoCc(jobs[i].args)
    /\ link.spawn # "no" =>
          /\ IsZig => LeadingCc(link.args)
          /\ ~IsZig => NoCc(link.args)

\* C24 witness: a Zig build spawned its compilers and its linker.
C24_Witness ==
    /\ IsZig
    /\ link.spawn = "ok"
    /\ link.args[1] = Tok("cc")
    /\ \E i \in DOMAIN jobs : jobs[i].spawn = "ok" /\ jobs[i].args[1] = Tok("cc")

====
